---------------------------- MODULE Spec2Model ----------------------------
(***************************************************************************)
(* State-machine model of the Chat component (src/src/components/Chat.tsx) *)
(* as it is mounted and unmounted by Dashboard (src/src/App.tsx).          *)
(*                                                                         *)
(* The browser runs one handler at a time, so every action below is one    *)
(* whole handler: a React effect or cleanup, a WebSocket event handler, or *)
(* a timer callback.  WebSocket objects outlive the component instance     *)
(* that created them: their handlers stay attached after the cleanup, and  *)
(* state setters of a torn-down instance are ignored by React.             *)
(***************************************************************************)
EXTENDS Integers, Sequences, FiniteSets, TLC

VARIABLES
    mounted,      \* a Chat instance is mounted (Dashboard showChat && user && token)
    token,        \* the token prop of the current instance
    sockets,      \* every WebSocket created so far, in creation order
    timers,       \* pending setTimeout(connectWebSocket, 3000) callbacks, FIFO
    wsRef,        \* wsRef.current of the current instance: index in sockets, 0 = null
    isConnected,  \* useState isConnected of the current instance
    messages,     \* useState messages of the current instance
    closedIn,     \* history: the connection state in which the last cleanup ran
    users,        \* useState users of the current instance: the user_ids listed
    fetching,     \* fetchUsers() requests of the current instance still in flight
    selectedUser, \* useState selectedUser of the current instance: user_id, 0 = null
    newMessage,   \* useState newMessage of the current instance: the draft
    lastSend,     \* history: what the last call of sendMessage saw and did
    offersMounted,  \* an Offers instance is mounted (Dashboard currentView === "offers")
    offersUsers,    \* useState users of the Offers instance: user_id -> profile
    receivedOffers, \* useState receivedOffers of the Offers instance: offer_id -> status
    serverStatus,   \* the status of each offer as the server holds it
    runs,           \* every fetchReceivedOffers() call that has not returned
    requests,       \* updateOfferStatus() calls whose POST is not answered yet
    settled,        \* history: the last profile fetch that settled
    answered        \* history: the last POST that was answered

\* The state of the conversation view.
view == <<users, fetching, selectedUser, newMessage, lastSend>>

\* The state of the Chat component.
chat == <<mounted, token, sockets, timers, wsRef, isConnected, messages, closedIn,
          users, fetching, selectedUser, newMessage, lastSend>>

\* The state of the Offers component and of the server it talks to.
offers == <<offersMounted, offersUsers, receivedOffers, serverStatus, runs,
            requests, settled, answered>>

vars == <<mounted, token, sockets, timers, wsRef, isConnected, messages, closedIn,
          users, fetching, selectedUser, newMessage, lastSend,
          offersMounted, offersUsers, receivedOffers, serverStatus, runs,
          requests, settled, answered>>

-----------------------------------------------------------------------------
(* Bounds *)

MaxSockets == 3          \* WebSocket objects created in one run (Spec)
StoreMaxSockets == 2     \* WebSocket objects created in one run (StoreSpec)
MaxMsgId == 2            \* message ids of inbound frames are 1..MaxMsgId
ViewMaxSockets == 2      \* WebSocket objects created in one run (ViewSpec)
MaxDayMsgId == 3         \* message ids of inbound frames in DaySpec are 1..MaxDayMsgId
MaxFetches == 2          \* fetchUsers() requests in flight at one time
MaxOffers == 2           \* offers received on the user's order: offer_ids 1..MaxOffers
MaxRuns == 2             \* fetchReceivedOffers() calls running at one time
MaxRequests == 2         \* updateOfferStatus() POSTs in flight at one time

-----------------------------------------------------------------------------
(* Data *)

Tokens == {"tokA", "tokB"}

currentUserId == 1

\* message_id of a frame that has no message_id property (it reads as
\* undefined, which is === only to itself).
undefinedId == 0

\* sent_at of a frame that has no sent_at property.
undefinedDate == "undefined"

\* Number.NaN, the time value of an Invalid Date (real time values are >= 0 here).
NaN == -1

\* sent_at strings of inbound frames.  The second one is the earlier instant
\* although it is the later string; a frame may also lack the property.
SentAtValues ==
    { "2024-05-01T10:00:00Z",
      "2024-05-01T11:00:00+02:00",
      undefinedDate }

\* new Date(s).getTime(), in hours since 2024-05-01T00:00:00Z.  Anything that
\* is not a date string gives an Invalid Date, whose time value is NaN.
GetTime(s) ==
    CASE s = "2024-05-01T10:00:00Z"      -> 10
      [] s = "2024-05-01T11:00:00+02:00" -> 9
      [] s = "2025-05-01T10:00:00Z"      -> 8770
      [] s = "2025-05-01T23:00:00Z"      -> 8783
      [] s = "2025-05-02T08:00:00Z"      -> 8792
      [] OTHER                           -> NaN

MsgIds == (1..MaxMsgId) \cup {undefinedId}

\* (sender_id, receiver_id) of inbound frames: both directions of the
\* conversation with user 2, and a message from user 3.
Parties == { <<1, 2>>, <<2, 1>>, <<3, 1>> }

\* JSON.parse(event.data) of the frames the transport can deliver.
Frames ==
    { [message_id |-> i, sender_id |-> p[1], receiver_id |-> p[2],
       content |-> "hi", sent_at |-> t] :
        i \in MsgIds, p \in Parties, t \in SentAtValues }

\* sent_at strings of the frames in DaySpec: the same day and month in two
\* years, an instant late in the evening (UTC) that is the next day in the
\* browser's time zone, a morning of that next day, and no sent_at.
DaySentAtValues ==
    { "2024-05-01T10:00:00Z",
      "2025-05-01T10:00:00Z",
      "2025-05-01T23:00:00Z",
      "2025-05-02T08:00:00Z",
      undefinedDate }

\* The frames delivered in DaySpec: messages from user 2.
DayFrames ==
    { [message_id |-> i, sender_id |-> 2, receiver_id |-> currentUserId,
       content |-> "hi", sent_at |-> t] :
        i \in 1..MaxDayMsgId, t \in DaySentAtValues }

\* The frames delivered in Spec, where the connection is what is explored.
ConnFrames ==
    { f \in Frames : f.message_id = 1 /\ f.sender_id = 2 /\ f.sent_at # undefinedDate }

-----------------------------------------------------------------------------
(* The message store: the setMessages updater of ws.onmessage *)

\* A comparator that puts a message before those of the same instant.
Compare_TieIsGreater(a, b) ==
    IF GetTime(a.sent_at) = NaN \/ GetTime(b.sent_at) = NaN
    THEN 0
    ELSE IF GetTime(a.sent_at) = GetTime(b.sent_at) THEN 1
         ELSE GetTime(a.sent_at) - GetTime(b.sent_at)

\* The comparator of the sort: new Date(a.sent_at).getTime() -
\* new Date(b.sent_at).getTime().  A NaN operand makes the difference NaN,
\* and Array.prototype.sort reads a NaN result as +0.
Compare(a, b) ==
    IF GetTime(a.sent_at) = NaN \/ GetTime(b.sent_at) = NaN
    THEN 0
    ELSE GetTime(a.sent_at) - GetTime(b.sent_at)

\* Insert x into s behind the last element it does not have to precede:
\* the step of a stable insertion sort that scans from the right.
RECURSIVE InsertSorted(_, _)
InsertSorted(s, x) ==
    IF s = << >> THEN << x >>
    ELSE IF Compare(s[Len(s)], x) > 0
         THEN Append(InsertSorted(SubSeq(s, 1, Len(s) - 1), x), s[Len(s)])
         ELSE Append(s, x)

\* Array.prototype.sort with Compare: stable (ES2019), so with valid dates the
\* result is determined; computed as an insertion sort, which is what the
\* engines run on arrays this short.
RECURSIVE Sort(_)
Sort(s) ==
    IF s = << >> THEN << >>
    ELSE InsertSorted(Sort(SubSeq(s, 1, Len(s) - 1)), s[Len(s)])

\* A duplicate check that looks at the newest entry only.
HasId_OnlyNewest(prev, id) ==
    prev # << >> /\ prev[Len(prev)].message_id = id

\* prev.some((m) => m.message_id === message.message_id)
HasId(prev, id) == \E i \in 1..Len(prev) : prev[i].message_id = id

\* An updater that lets the newest frame of an id replace the stored one.
Ingest_LastWriterWins(prev, message) ==
    Sort(Append(SelectSeq(prev, LAMBDA m : m.message_id # message.message_id), message))

\* An updater without the duplicate check.
Ingest_NoDedup(prev, message) == Sort(Append(prev, message))

\* The updater passed to setMessages: prev -> next.
Ingest(prev, message) ==
    IF HasId(prev, message.message_id)
    THEN prev
    ELSE Sort(Append(prev, message))

\* A filter that keeps only what the other user sent.
RECURSIVE getMessagesWithUser_ReceivedOnly(_, _)
getMessagesWithUser_ReceivedOnly(msgs, userId) ==
    IF msgs = << >> THEN << >>
    ELSE LET rest == getMessagesWithUser_ReceivedOnly(SubSeq(msgs, 1, Len(msgs) - 1), userId)
             msg  == msgs[Len(msgs)]
         IN  IF msg.sender_id = userId /\ msg.receiver_id = currentUserId
             THEN Append(rest, msg)
             ELSE rest

\* getMessagesWithUser(userId): messages.filter(...), order preserved.
RECURSIVE getMessagesWithUser(_, _)
getMessagesWithUser(msgs, userId) ==
    IF msgs = << >> THEN << >>
    ELSE LET rest == getMessagesWithUser(SubSeq(msgs, 1, Len(msgs) - 1), userId)
             msg  == msgs[Len(msgs)]
         IN  IF \/ (msg.sender_id = currentUserId /\ msg.receiver_id = userId)
                \/ (msg.sender_id = userId /\ msg.receiver_id = currentUserId)
             THEN Append(rest, msg)
             ELSE rest

-----------------------------------------------------------------------------
(* The day headers of the conversation: formatDate and the reduce *)

\* The browser's time zone, in hours east of UTC.
TimeZoneOffset == 2

\* new Date() at the time of a render, as a time value: 2025-05-02T09:00Z
\* and 2025-05-10T09:00Z.
Nows == {8793, 8985}

\* The local day of a time value, counted from 2024-05-01.
LocalDay(t) == (t + TimeZoneOffset) \div 24

\* The lengths of the months from May 2024 to December 2025.
MonthDays ==
    << 31, 30, 31, 31, 30, 31, 30, 31,
       31, 28, 31, 30, 31, 30, 31, 31, 30, 31, 30, 31 >>

\* The calendar date of local day d, looked for from the i-th month on.
RECURSIVE CalendarFrom(_, _)
CalendarFrom(d, i) ==
    IF d < MonthDays[i]
    THEN [year |-> 2024 + ((i + 3) \div 12), month |-> ((i + 3) % 12) + 1, day |-> d + 1]
    ELSE CalendarFrom(d - MonthDays[i], i + 1)

\* What toDateString() tells of a valid date: its local year, month and day.
CalendarDate(t) == CalendarFrom(LocalDay(t), 1)

\* The values formatDate returns, and null.
Dzisiaj == [kind |-> "Dzisiaj", day |-> 0, month |-> 0]
Wczoraj == [kind |-> "Wczoraj", day |-> 0, month |-> 0]
InvalidDateLabel == [kind |-> "Invalid Date", day |-> 0, month |-> 0]
NullLabel == [kind |-> "null", day |-> 0, month |-> 0]

\* date.toLocaleDateString("pl-PL", {day: "numeric", month: "short"}):
\* the day of the month and the month, no year.
ToLocaleDateString(t) ==
    [kind |-> "date", day |-> CalendarDate(t).day, month |-> CalendarDate(t).month]

\* formatDate(dateString) in a render at time now.  yesterday is today
\* with setDate(getDate() - 1): the local day before.  An Invalid Date has
\* the toDateString() "Invalid Date", which is neither today's nor
\* yesterday's, and the toLocaleDateString() "Invalid Date".
formatDate(dateString, now) ==
    LET t == GetTime(dateString)
    IN  IF t = NaN THEN InvalidDateLabel
        ELSE IF CalendarDate(t) = CalendarDate(now) THEN Dzisiaj
        ELSE IF CalendarDate(t) = CalendarFrom(LocalDay(now) - 1, 1) THEN Wczoraj
        ELSE ToLocaleDateString(t)

\* Whether the reduce pushes a header before the message at index:
\* currentDate !== previousDate, previousDate being null at index 0.
PushesHeader(conv, index, now) ==
    LET currentDate  == formatDate(conv[index].sent_at, now)
        previousDate == IF index > 1 THEN formatDate(conv[index - 1].sent_at, now)
                        ELSE NullLabel
    IN  currentDate # previousDate

\* userMessages.reduce(...) over the first n messages: the elements pushed,
\* a day header (index 0) or the bubble of the message at index.
RECURSIVE RenderDays(_, _, _)
RenderDays(conv, n, now) ==
    IF n = 0 THEN << >>
    ELSE LET acc == RenderDays(conv, n - 1, now)
             header == [header |-> TRUE, label |-> formatDate(conv[n].sent_at, now),
                        index |-> 0]
             bubble == [header |-> FALSE, label |-> NullLabel, index |-> n]
         IN  IF PushesHeader(conv, n, now)
             THEN Append(Append(acc, header), bubble)
             ELSE Append(acc, bubble)

-----------------------------------------------------------------------------
(* The conversation view: the directory, the draft and sendMessage *)

\* user_ids of the users that GET /user/search?query= returns.
Directory == {1, 2, 3}

\* data.filter((user) => user.user_id !== currentUserId)
OtherUsers(data) == { u \in data : u # currentUserId }

\* White space as String.prototype.trim() strips it.
WhiteSpace == {" "}

\* Values of the text input, as sequences of characters: empty, blank,
\* and text with white space around it.
Drafts == { << >>, << " " >>, << " ", "a", " " >> }

RECURSIVE TrimStart(_)
TrimStart(s) ==
    IF s # << >> /\ Head(s) \in WhiteSpace THEN TrimStart(Tail(s)) ELSE s

RECURSIVE TrimEnd(_)
TrimEnd(s) ==
    IF s # << >> /\ s[Len(s)] \in WhiteSpace
    THEN TrimEnd(SubSeq(s, 1, Len(s) - 1))
    ELSE s

\* String.prototype.trim()
Trim(s) == TrimEnd(TrimStart(s))

\* WebSocket.send(data) by readyState: it throws InvalidStateError on a
\* socket that is connecting, hands the data to the transport on an open
\* one, and discards the data silently on one that is closing or closed.
SocketSend(state) ==
    CASE state = "CONNECTING" -> "throws"
      [] state = "OPEN"       -> "transmits"
      [] OTHER                -> "discards"

\* A messageData that carries the draft as typed.
MessageData_Untrimmed(selected, draft) ==
    [sender_id |-> currentUserId, receiver_id |-> selected, content |-> draft]

\* messageData of sendMessage, which JSON.stringify turns into the frame.
MessageData(selected, draft) ==
    [sender_id |-> currentUserId, receiver_id |-> selected, content |-> Trim(draft)]

\* A guard of sendMessage that does not look at the draft.
SendRejects_AnyDraft(draft, selected, ref) == selected = 0 \/ ref = 0

\* The guard of sendMessage:
\* if (!newMessage.trim() || !selectedUser || !wsRef.current) return;
SendRejects(draft, selected, ref) ==
    Trim(draft) = << >> \/ selected = 0 \/ ref = 0

\* No call of sendMessage so far.
NoSend ==
    [draft |-> << >>, selected |-> 0, readyState |-> "-",
     connected |-> FALSE, calls |-> 0, wrote |-> << >>, threw |-> FALSE,
     escaped |-> FALSE]

-----------------------------------------------------------------------------
(* The connection: connectWebSocket and the socket's handlers *)

\* WebSocket.readyState
ReadyStates == {"CONNECTING", "OPEN", "CLOSING", "CLOSED"}

\* ws.close(): starts the closing handshake of a socket that is connecting
\* or open; nothing on a socket that is closing or closed.
CloseSocket(socks, i) ==
    IF i # 0 /\ socks[i].state \in {"CONNECTING", "OPEN"}
    THEN [socks EXCEPT ![i].state = "CLOSING"]
    ELSE socks

\* The sockets after new WebSocket(`...?token=${tok}`) returned a socket.
\* dead: the instance whose connectWebSocket ran has been torn down.
NewSocket(socks, tok, dead) ==
    Append(socks, [state |-> "CONNECTING", token |-> tok, dead |-> dead])

\* React ignores a state setter called on an instance that is torn down.
SetState(dead, old, new) == IF dead THEN old ELSE new

\* The connection state of the mounted instance, in the spec's terms.
ConnState ==
    IF wsRef = 0 THEN "None"
    ELSE CASE sockets[wsRef].state = "CONNECTING" -> "Connecting"
           [] sockets[wsRef].state = "OPEN"       -> "Open"
           [] sockets[wsRef].state = "CLOSING"    -> "Closing"
           [] OTHER ->
                IF \E k \in 1..Len(timers) : ~timers[k].dead
                THEN "ClosedPending" ELSE "ClosedIdle"

-----------------------------------------------------------------------------
(* The Offers component: received offers and the profiles of their authors *)

\* offer_ids of the offers on the current user's order.
OfferIds == 1..MaxOffers

\* offer.user_id: the first two offers come from the same user.
OfferUser(o) == IF o <= 2 THEN 7 ELSE 8

\* user_ids that fetchUserDetails is called with.
OfferUserIds == { OfferUser(o) : o \in OfferIds }

\* offer.status; "absent": the offer is not in the list.
Statuses == {"pending", "accepted", "rejected"}

\* How a fetch ends: response.ok, a response that is not ok, or a rejected
\* promise (network error), which the catch logs.
Outcomes == {"ok", "notok", "throws"}

\* useState initial values: users = {} and receivedOffers = [].
NoProfiles == [u \in OfferUserIds |-> "none"]
NoOffers == [o \in OfferIds |-> "absent"]

\* A slot of runs that holds no call.
Idle == [phase |-> "idle", users |-> NoProfiles, list |-> NoOffers, pos |-> 0, dead |-> FALSE]

\* No profile fetch has settled, no POST has been answered.
NoFetch == [id |-> 0, ok |-> FALSE]
NoAnswer == [offer |-> 0, ok |-> FALSE]

\* if (users[userId]) return;  users is the state as the render saw it whose
\* effect called fetchData: every lookup of a run reads that same object.
Cached(run, current, id) == run.users[id] # "none"

\* A fetch that caches a placeholder when it fails.
SettleUsers_CachesFailure(prev, id, outcome) ==
    [prev EXCEPT ![id] = IF outcome = "ok" THEN "profile" ELSE "error"]

\* What the end of GET /user/:id does to users:
\* if (response.ok) setUsers((prev) => ({...prev, [userId]: user})).
SettleUsers(prev, id, outcome) ==
    IF outcome = "ok" THEN [prev EXCEPT ![id] = "profile"] ELSE prev

\* prev.map((offer) => offer.offer_id === offerId ? {...offer, status} : offer)
MapStatus(prev, offerId, status) ==
    [o \in OfferIds |-> IF o = offerId /\ prev[o] # "absent" THEN status ELSE prev[o]]

\* The loop over orderOffers from position p on, with the state of the
\* instance being current: the position of the first offer whose
\* fetchUserDetails issues a fetch, MaxOffers + 1 when there is none.
RECURSIVE NextFetch(_, _, _)
NextFetch(run, current, p) ==
    IF p > MaxOffers THEN p
    ELSE IF Cached(run, current, OfferUser(p)) THEN NextFetch(run, current, p + 1)
         ELSE p

\* fetchReceivedOffers at the offer at position p, having just come back
\* from an await: it goes on to the next fetch, or past the loops to
\* setReceivedOffers(allReceivedOffers) and returns.
Continue(r, p, current) ==
    LET q == NextFetch(runs[r], current, p)
    IN  IF q <= MaxOffers
        THEN /\ runs' = [runs EXCEPT ![r].phase = "users", ![r].pos = q]
             /\ UNCHANGED receivedOffers
        ELSE /\ runs' = [runs EXCEPT ![r] = Idle]
             /\ receivedOffers' = SetState(runs[r].dead, receivedOffers, runs[r].list)

-----------------------------------------------------------------------------
(* Types, and the initial state *)

TypeOK ==
    /\ mounted \in BOOLEAN
    /\ token \in Tokens
    /\ \A i \in 1..Len(sockets) :
          /\ sockets[i].state \in ReadyStates
          /\ sockets[i].token \in Tokens
          /\ sockets[i].dead \in BOOLEAN
    /\ \A k \in 1..Len(timers) : timers[k].token \in Tokens /\ timers[k].dead \in BOOLEAN
    /\ wsRef \in 0..Len(sockets)
    /\ isConnected \in BOOLEAN
    /\ \A k \in 1..Len(messages) : messages[k] \in Frames \cup DayFrames
    /\ users \subseteq Directory
    /\ fetching \in 0..MaxFetches
    /\ selectedUser \in {0} \cup Directory
    /\ newMessage \in Drafts
    /\ lastSend.calls \in 0..1
    /\ offersMounted \in BOOLEAN
    /\ offersUsers \in [OfferUserIds -> {"none", "profile"}]
    /\ receivedOffers \in [OfferIds -> Statuses \cup {"absent"}]
    /\ serverStatus \in [OfferIds -> Statuses]
    /\ \A r \in 1..MaxRuns :
          /\ runs[r].phase \in {"idle", "orders", "offers", "users"}
          /\ runs[r].pos \in 0..MaxOffers
          /\ runs[r].phase = "users" <=> runs[r].pos > 0
    /\ \A k \in 1..Len(requests) :
          requests[k].offer \in OfferIds /\ requests[k].status \in {"accepted", "rejected"}
    /\ settled.id \in {0} \cup OfferUserIds
    /\ answered.offer \in {0} \cup OfferIds

\* connectWebSocket() called by the effect of a (re)render with token tok:
\* either new WebSocket throws (caught at line 92, nothing else happens) or
\* the socket is created, its handlers attached, and wsRef.current set.
EffectConnect(socks, tok, throws) ==
    IF throws THEN [socks |-> socks, ref |-> 0, made |-> FALSE]
    ELSE [socks |-> NewSocket(socks, tok, FALSE), ref |-> Len(socks) + 1, made |-> TRUE]

\* The state after the first mount: useState initial values, then the effect.
Init ==
    /\ mounted = TRUE
    /\ token = "tokA"
    /\ \E throws \in BOOLEAN :
          LET c == EffectConnect(<< >>, token, throws)
          IN  sockets = c.socks /\ wsRef = c.ref
    /\ timers = << >>
    /\ isConnected = FALSE
    /\ messages = << >>
    /\ closedIn = "-"
    /\ users = {}
    /\ fetching = 1
    /\ selectedUser = 0
    /\ newMessage = << >>
    /\ lastSend = NoSend
    /\ offersMounted = FALSE
    /\ offersUsers = NoProfiles
    /\ receivedOffers = NoOffers
    /\ serverStatus = [o \in OfferIds |-> "pending"]
    /\ runs = [r \in 1..MaxRuns |-> Idle]
    /\ requests = << >>
    /\ settled = NoFetch
    /\ answered = NoAnswer

\* A socket or timer of the current instance becomes one of a torn-down instance.
Kill(seq) == [k \in 1..Len(seq) |-> [seq[k] EXCEPT !.dead = TRUE]]

\* Dashboard stops rendering Chat (onClose -> setShowChat(false), or logout):
\* the effect cleanup runs, wsRef.current.close() if there is a socket.
\* Pending timers are not cleared and the handlers stay attached.  The
\* instance's state (useState, useRef) is gone with it, which reads here as
\* the initial values.
Unmount ==
    /\ mounted
    /\ mounted' = FALSE
    /\ closedIn' = ConnState
    /\ sockets' = Kill(CloseSocket(sockets, wsRef))
    /\ timers' = Kill(timers)
    /\ wsRef' = 0
    /\ isConnected' = FALSE
    /\ messages' = << >>
    /\ users' = {}
    /\ fetching' = 0
    /\ selectedUser' = 0
    /\ newMessage' = << >>
    /\ UNCHANGED <<token, lastSend>>
    /\ UNCHANGED offers

\* Dashboard renders Chat again (setShowChat(true), possibly after a new
\* login): a fresh instance with initial state, whose effect connects.
Mount(maxS) ==
    /\ ~mounted
    /\ Len(sockets) < maxS
    /\ \E tok \in Tokens, throws \in BOOLEAN :
          LET c == EffectConnect(sockets, tok, throws)
          IN  /\ token' = tok
              /\ sockets' = c.socks
              /\ wsRef' = c.ref
    /\ mounted' = TRUE
    /\ isConnected' = FALSE
    /\ messages' = << >>
    /\ closedIn' = "-"
    /\ users' = {}
    /\ fetching' = 1
    /\ selectedUser' = 0
    /\ newMessage' = << >>
    /\ UNCHANGED <<timers, lastSend>>
    /\ UNCHANGED offers

\* The token prop changes while mounted: the cleanup of the old effect runs
\* (close the socket in wsRef), then the effect runs again with the new token
\* (connectWebSocket(), then fetchUsers()).
\* When new WebSocket throws, wsRef.current keeps the old socket.
ChangeToken(maxS) ==
    /\ mounted
    /\ Len(sockets) < maxS
    /\ fetching < MaxFetches
    /\ \E tok \in Tokens \ {token}, throws \in BOOLEAN :
          LET closed == CloseSocket(sockets, wsRef)
              c == EffectConnect(closed, tok, throws)
          IN  /\ token' = tok
              /\ sockets' = c.socks
              /\ wsRef' = IF c.made THEN c.ref ELSE wsRef
    /\ fetching' = fetching + 1
    /\ UNCHANGED <<mounted, timers, isConnected, messages, closedIn>>
    /\ UNCHANGED <<users, selectedUser, newMessage, lastSend>>
    /\ UNCHANGED offers

\* ws.onopen: the connection is established.
OnOpen(i) ==
    /\ sockets[i].state = "CONNECTING"
    /\ sockets' = [sockets EXCEPT ![i].state = "OPEN"]
    /\ isConnected' = SetState(sockets[i].dead, isConnected, TRUE)
    /\ UNCHANGED <<mounted, token, timers, wsRef, messages, closedIn>>
    /\ UNCHANGED view
    /\ UNCHANGED offers

\* ws.onmessage with data that parses to an object: setMessages(updater).
\* Nothing looks at the properties the object has.
OnMessage(i, frame) ==
    /\ sockets[i].state = "OPEN"
    /\ messages' = SetState(sockets[i].dead, messages, Ingest(messages, frame))
    /\ UNCHANGED <<mounted, token, sockets, timers, wsRef, isConnected, closedIn>>
    /\ UNCHANGED view
    /\ UNCHANGED offers

\* ws.onmessage with data that is not JSON: JSON.parse throws, the catch of
\* line 74 logs it, and setMessages is not called.
OnMessageNotJson(i) ==
    /\ sockets[i].state = "OPEN"
    /\ UNCHANGED vars

\* ws.onerror that arms a reconnect timer as ws.onclose does.
OnErrorTimers_AlsoReconnects(ts, i) ==
    Append(ts, [token |-> sockets[i].token, dead |-> sockets[i].dead])

\* What ws.onerror does to the pending timers: nothing.
OnErrorTimers(ts, i) == ts

\* ws.onclose that arms no reconnect timer.
OnCloseTimers_NoReconnect(ts, i) == ts

\* What ws.onclose does to the pending timers:
\* setTimeout(() => connectWebSocket(), 3000), the closure of the render
\* that created the socket, so with that render's token.
OnCloseTimers(ts, i) ==
    Append(ts, [token |-> sockets[i].token, dead |-> sockets[i].dead])

\* A close handler that empties the store.
OnCloseStore_Clears(msgs) == << >>

\* What ws.onclose and ws.onerror do to the store: they never call
\* setMessages.
OnCloseStore(msgs) == msgs

\* The close event alone (a clean close: the server's close frame, or the end
\* of the handshake that ws.close() started): ws.onclose.
OnClose(i) ==
    /\ sockets[i].state \in {"OPEN", "CLOSING"}
    /\ sockets' = [sockets EXCEPT ![i].state = "CLOSED"]
    /\ isConnected' = SetState(sockets[i].dead, isConnected, FALSE)
    /\ timers' = OnCloseTimers(timers, i)
    /\ messages' = SetState(sockets[i].dead, messages, OnCloseStore(messages))
    /\ UNCHANGED <<mounted, token, wsRef, closedIn>>
    /\ UNCHANGED view
    /\ UNCHANGED offers

\* The connection fails (refused, dropped, or closed by ws.close() before it
\* was established): the browser fires error and then close in one task, so
\* ws.onerror runs and then ws.onclose.
OnErrorThenClose(i) ==
    /\ sockets[i].state \in {"CONNECTING", "OPEN", "CLOSING"}
    /\ sockets' = [sockets EXCEPT ![i].state = "CLOSED"]
    /\ isConnected' = SetState(sockets[i].dead, isConnected, FALSE)
    /\ timers' = OnCloseTimers(OnErrorTimers(timers, i), i)
    /\ messages' = SetState(sockets[i].dead, messages, OnCloseStore(messages))
    /\ UNCHANGED <<mounted, token, wsRef, closedIn>>
    /\ UNCHANGED view
    /\ UNCHANGED offers

\* The oldest reconnect timer expires: connectWebSocket() of the closure that
\* armed it.  wsRef.current = ws writes the ref of that closure's instance.
\* outcomes: whether new WebSocket may throw (BOOLEAN) or returns ({FALSE}).
TimerFire(maxS, outcomes) ==
    /\ timers # << >>
    /\ Len(sockets) < maxS
    /\ LET t == Head(timers)
       IN  \E throws \in outcomes :
              IF throws
              THEN UNCHANGED <<sockets, wsRef>>
              ELSE /\ sockets' = NewSocket(sockets, t.token, t.dead)
                   /\ wsRef' = IF t.dead THEN wsRef ELSE Len(sockets) + 1
    /\ timers' = Tail(timers)
    /\ UNCHANGED <<mounted, token, isConnected, messages, closedIn>>
    /\ UNCHANGED view
    /\ UNCHANGED offers

-----------------------------------------------------------------------------
(* The handlers of the conversation view *)

\* A fetchUsers() request of the current instance completes: with a
\* response that is ok, setUsers(the others); otherwise (not ok, or fetch
\* rejected and caught) nothing.
FetchUsersDone(ok) ==
    /\ fetching > 0
    /\ fetching' = fetching - 1
    /\ users' = IF ok THEN OtherUsers(Directory) ELSE users
    /\ UNCHANGED <<mounted, token, sockets, timers, wsRef, isConnected, messages, closedIn>>
    /\ UNCHANGED <<selectedUser, newMessage, lastSend>>
    /\ UNCHANGED offers

\* A selection that sends a request of its own.
SelectFetches_Requests(n) == IF n < MaxFetches THEN n + 1 ELSE n

\* What selecting a user does to the requests in flight: it sends none.
SelectFetches(n) == n

\* onClick of an entry of the user list: setSelectedUser(user).
SelectUser(u) ==
    /\ mounted
    /\ u \in users
    /\ selectedUser' = u
    /\ fetching' = SelectFetches(fetching)
    /\ UNCHANGED <<mounted, token, sockets, timers, wsRef, isConnected, messages, closedIn>>
    /\ UNCHANGED <<users, newMessage, lastSend>>
    /\ UNCHANGED offers

\* onChange of the text input: setNewMessage(e.target.value).  The input is
\* rendered with the conversation and is disabled while isConnected is false.
EditDraft(d) ==
    /\ mounted
    /\ selectedUser # 0
    /\ isConnected
    /\ d # newMessage
    /\ newMessage' = d
    /\ UNCHANGED <<mounted, token, sockets, timers, wsRef, isConnected, messages, closedIn>>
    /\ UNCHANGED <<users, fetching, selectedUser, lastSend>>
    /\ UNCHANGED offers

\* A sendMessage that clears the draft whatever send did.
DraftAfterSend_AlwaysClears(draft, outcome) ==
    IF outcome = "none" THEN draft ELSE << >>

\* setNewMessage("") follows send inside the try: it runs when send was
\* called and returned.
DraftAfterSend(draft, outcome) ==
    IF outcome \in {"transmits", "discards"} THEN << >> ELSE draft

\* A sendMessage without the try/catch: what send throws leaves the handler.
SendEscapes_NoCatch(threw) == threw

\* try { wsRef.current.send(...) } catch (error) { console.error(...) }:
\* nothing that send throws leaves the handler.
SendEscapes(threw) == FALSE

\* A sendMessage that also puts the message into the store.
SendStore_Optimistic(msgs, data) ==
    Append(msgs, [message_id |-> undefinedId, sender_id |-> data.sender_id,
                  receiver_id |-> data.receiver_id, content |-> "hi",
                  sent_at |-> undefinedDate])

\* What sendMessage does to the store: it never calls setMessages.
SendStore(msgs, data) == msgs

\* sendMessage(e), called in any state of the mounted instance (the submit
\* button is disabled while the draft is blank or isConnected is false, which
\* keeps a click from getting here, not a call).  It returns early on a blank
\* draft, no selected user or an empty wsRef; otherwise it calls send once on
\* whatever socket wsRef holds, and clears the draft when send returned.
SendMessage ==
    /\ mounted
    /\ LET rejected == SendRejects(newMessage, selectedUser, wsRef)
           state    == IF wsRef = 0 THEN "null" ELSE sockets[wsRef].state
           data     == MessageData(selectedUser, newMessage)
           outcome  == IF rejected THEN "none" ELSE SocketSend(state)
       IN  /\ lastSend' =
                 [draft |-> newMessage,
                  selected |-> selectedUser, readyState |-> state,
                  connected |-> isConnected,
                  calls |-> IF rejected THEN 0 ELSE 1,
                  wrote |-> IF outcome = "transmits" THEN << data >> ELSE << >>,
                  threw |-> outcome = "throws",
                  escaped |-> SendEscapes(outcome = "throws")]
           /\ newMessage' = DraftAfterSend(newMessage, outcome)
           /\ messages' = IF rejected THEN messages ELSE SendStore(messages, data)
    /\ UNCHANGED <<mounted, token, sockets, timers, wsRef, isConnected, closedIn>>
    /\ UNCHANGED <<users, fetching, selectedUser>>
    /\ UNCHANGED offers

\* What the user does in the view, and the completion of the directory fetch.
View ==
    \/ \E ok \in BOOLEAN : FetchUsersDone(ok)
    \/ \E u \in Directory : SelectUser(u)
    \/ \E d \in Drafts : EditDraft(d)
    \/ SendMessage

-----------------------------------------------------------------------------
(* The handlers of the Offers component *)

\* The first slot of runs that is free.
FreeRun == CHOOSE r \in 1..MaxRuns : runs[r] = Idle /\ \A q \in 1..(r - 1) : runs[q] # Idle

\* The fetchReceivedOffers() calls that have not returned.
Running == { r \in 1..MaxRuns : runs[r] # Idle }

\* The effect of Offers runs: fetchData() calls fetchReceivedOffers(), which
\* sends GET /orders/user/:id.  The call keeps the users object of the
\* render that ran the effect.  (fetchMyOffers, which fills the sent offers
\* and the orders, is left out.)
StartRun(current) ==
    runs' = [runs EXCEPT ![FreeRun] =
                [phase |-> "orders", users |-> current, list |-> NoOffers,
                 pos |-> 0, dead |-> FALSE]]

\* Dashboard shows the offers view: a fresh instance, whose effect runs.
OffersMount(maxR) ==
    /\ ~offersMounted
    /\ Cardinality(Running) < maxR
    /\ offersMounted' = TRUE
    /\ offersUsers' = NoProfiles
    /\ receivedOffers' = NoOffers
    /\ StartRun(NoProfiles)
    /\ UNCHANGED <<serverStatus, requests, settled, answered>>
    /\ UNCHANGED chat

\* Dashboard shows another view: the instance is torn down.  Its calls go
\* on, and what they set is ignored.
OffersUnmount ==
    /\ offersMounted
    /\ offersMounted' = FALSE
    /\ offersUsers' = NoProfiles
    /\ receivedOffers' = NoOffers
    /\ runs' = [r \in 1..MaxRuns |->
                  IF runs[r] = Idle THEN Idle ELSE [runs[r] EXCEPT !.dead = TRUE]]
    /\ requests' = Kill(requests)
    /\ UNCHANGED <<serverStatus, settled, answered>>
    /\ UNCHANGED chat

\* currentUserId or token changes while Offers is mounted: the effect runs
\* again, with the users object of this render.
OffersRefetch(maxR) ==
    /\ offersMounted
    /\ Cardinality(Running) < maxR
    /\ StartRun(offersUsers)
    /\ UNCHANGED <<offersMounted, offersUsers, receivedOffers, serverStatus,
                   requests, settled, answered>>
    /\ UNCHANGED chat

\* GET /orders/user/:id is answered.  ok: the user's one order, and the call
\* sends GET /offers/order/:id.  Not ok: nothing is set.  Rejected: caught.
OrdersAnswer(r, outcome) ==
    /\ runs[r].phase = "orders"
    /\ runs' = [runs EXCEPT ![r] =
                  IF outcome = "ok" THEN [runs[r] EXCEPT !.phase = "offers"] ELSE Idle]
    /\ UNCHANGED <<offersMounted, offersUsers, receivedOffers, serverStatus,
                   requests, settled, answered>>
    /\ UNCHANGED chat

\* GET /offers/order/:id is answered.  ok: the offers with their status on
\* the server go into allReceivedOffers and the loop over them starts.  Not
\* ok: the order is skipped and setReceivedOffers([]) follows.  Rejected:
\* caught, nothing is set.
OffersAnswer(r, outcome) ==
    /\ runs[r].phase = "offers"
    /\ CASE outcome = "ok" ->
               LET loaded == [runs EXCEPT ![r].list = serverStatus]
                   q == NextFetch(loaded[r], offersUsers, 1)
               IN  IF q <= MaxOffers
                   THEN /\ runs' = [loaded EXCEPT ![r].phase = "users", ![r].pos = q]
                        /\ UNCHANGED receivedOffers
                   ELSE /\ runs' = [runs EXCEPT ![r] = Idle]
                        /\ receivedOffers' =
                              SetState(runs[r].dead, receivedOffers, serverStatus)
         [] outcome = "notok" ->
               /\ runs' = [runs EXCEPT ![r] = Idle]
               /\ receivedOffers' = SetState(runs[r].dead, receivedOffers, NoOffers)
         [] OTHER ->
               /\ runs' = [runs EXCEPT ![r] = Idle]
               /\ UNCHANGED receivedOffers
    /\ UNCHANGED <<offersMounted, offersUsers, serverStatus, requests, settled, answered>>
    /\ UNCHANGED chat

\* GET /user/:id of fetchUserDetails settles, and fetchReceivedOffers goes on
\* with the next offer.
UserAnswer(r, outcome) ==
    /\ runs[r].phase = "users"
    /\ LET id == OfferUser(runs[r].pos)
           next == SetState(runs[r].dead, offersUsers, SettleUsers(offersUsers, id, outcome))
       IN  /\ offersUsers' = next
           /\ settled' = [id |-> id, ok |-> outcome = "ok"]
           /\ Continue(r, runs[r].pos + 1, next)
    /\ UNCHANGED <<offersMounted, serverStatus, requests, answered>>
    /\ UNCHANGED chat

\* onClick of "Zaakceptuj" or "Odrzuć", which are rendered for an offer whose
\* status is pending: updateOfferStatus(offerId, status) sends the POST.
UpdateOfferStatus(o, status) ==
    /\ offersMounted
    /\ receivedOffers[o] = "pending"
    /\ Len(requests) < MaxRequests
    /\ requests' = Append(requests, [offer |-> o, status |-> status, dead |-> FALSE])
    /\ UNCHANGED <<offersMounted, offersUsers, receivedOffers, serverStatus, runs,
                   settled, answered>>
    /\ UNCHANGED chat

\* The POST of the k-th pending updateOfferStatus is answered.  ok: the
\* server has taken the status, and the offer is updated in the list.
StatusAnswer(k, outcome) ==
    /\ k \in 1..Len(requests)
    /\ LET req == requests[k]
       IN  /\ requests' = SubSeq(requests, 1, k - 1) \o SubSeq(requests, k + 1, Len(requests))
           /\ answered' = [offer |-> req.offer, ok |-> outcome = "ok"]
           /\ serverStatus' = IF outcome = "ok"
                               THEN [serverStatus EXCEPT ![req.offer] = req.status]
                               ELSE serverStatus
           /\ receivedOffers' =
                 IF outcome = "ok"
                 THEN SetState(req.dead, receivedOffers,
                               MapStatus(receivedOffers, req.offer, req.status))
                 ELSE receivedOffers
    /\ UNCHANGED <<offersMounted, offersUsers, runs, settled>>
    /\ UNCHANGED chat

\* What Dashboard does to the Offers component.
OffersOwner(maxR) ==
    \/ OffersMount(maxR)
    \/ OffersUnmount
    \/ OffersRefetch(maxR)

\* The answers to the GETs of fetchReceivedOffers.
Loading(outcomes) ==
    \/ \E r \in 1..MaxRuns, outcome \in outcomes : OrdersAnswer(r, outcome)
    \/ \E r \in 1..MaxRuns, outcome \in outcomes : OffersAnswer(r, outcome)
    \/ \E r \in 1..MaxRuns, outcome \in outcomes : UserAnswer(r, outcome)

\* The profiles of the offers' authors: every call of fetchReceivedOffers,
\* with every outcome of its fetches; no offer is accepted or rejected.
DirectoryNext == OffersOwner(MaxRuns) \/ Loading(Outcomes)

DirectorySpec == Init /\ [][DirectoryNext]_vars

\* The status of the received offers: one call of fetchReceivedOffers at a
\* time, whose fetches succeed, and the accept and reject buttons.
StatusNext ==
    \/ OffersOwner(1)
    \/ Loading({"ok"})
    \/ \E o \in OfferIds, status \in {"accepted", "rejected"} : UpdateOfferStatus(o, status)
    \/ \E k \in 1..MaxRequests, outcome \in Outcomes : StatusAnswer(k, outcome)

StatusSpec == Init /\ [][StatusNext]_vars

\* The transport's events on the sockets, and the timer.
Session(maxS, frames) ==
    \/ \E i \in 1..Len(sockets) : OnOpen(i)
    \/ \E i \in 1..Len(sockets), frame \in frames : OnMessage(i, frame)
    \/ \E i \in 1..Len(sockets) : OnMessageNotJson(i)
    \/ \E i \in 1..Len(sockets) : OnClose(i)
    \/ \E i \in 1..Len(sockets) : OnErrorThenClose(i)
    \/ TimerFire(maxS, BOOLEAN)

\* What Dashboard does to the component.
Owner(maxS) ==
    \/ Unmount
    \/ Mount(maxS)
    \/ ChangeToken(maxS)

Next ==
    \/ Owner(MaxSockets)
    \/ Session(MaxSockets, ConnFrames)
    \/ \E ok \in BOOLEAN : FetchUsersDone(ok)

Spec == Init /\ [][Next]_vars

\* userMessages: the projection for the selected user, or [].
userMessages ==
    IF selectedUser # 0 THEN getMessagesWithUser(messages, selectedUser) ELSE << >>

\* The conversation as rendered at time now.
Rendered(now) == RenderDays(userMessages, Len(userMessages), now)

\* The day headers over one connection: frames of several days arrive on
\* the first socket, in any order, and a user is selected.
DayNext ==
    \/ \E i \in 1..Len(sockets) : OnOpen(i)
    \/ \E i \in 1..Len(sockets), frame \in DayFrames : OnMessage(i, frame)
    \/ \E ok \in BOOLEAN : FetchUsersDone(ok)
    \/ \E u \in Directory : SelectUser(u)

DaySpec == Init /\ [][DayNext]_vars

\* The frame delivered in ViewSpec.
ViewFrames == { f \in ConnFrames : f.sent_at = "2024-05-01T10:00:00Z" }

\* The conversation view over one mounted instance: the transport's events,
\* a change of the token prop, and the handlers of the view.
ViewNext ==
    \/ Session(ViewMaxSockets, ViewFrames)
    \/ ChangeToken(ViewMaxSockets)
    \/ View

ViewSpec == Init /\ [][ViewNext]_vars

\* The store over one mounted instance and its reconnects, with every frame
\* the transport can deliver.  (A remount starts from an empty store.)
StoreNext == Session(StoreMaxSockets, Frames)

StoreSpec == Init /\ [][StoreNext]_vars

\* The frames of one correspondent: every id with every sent_at.
DedupFrames == { f \in Frames : f.sender_id = 2 /\ f.receiver_id = currentUserId }

\* The store over one mounted instance whose frames all come from one
\* correspondent, so that frames differ in their id and sent_at only.
DedupNext == Session(StoreMaxSockets, DedupFrames)

DedupSpec == Init /\ [][DedupNext]_vars

\* The frames delivered in LiveSpec.
LiveFrames ==
    { f \in Frames : f.sender_id = 2 /\ f.sent_at # undefinedDate }

\* A mounted view whose transport loses the open connection of the first
\* socket once (a close event) and accepts every later attempt.
LiveNext ==
    \/ \E i \in 1..Len(sockets) : OnOpen(i)
    \/ \E i \in 1..Len(sockets), frame \in LiveFrames : OnMessage(i, frame)
    \/ sockets # << >> /\ OnClose(1)
    \/ TimerFire(MaxSockets, {FALSE})

\* Timers expire and the transport answers a connection attempt.
LiveSpec ==
    /\ Init
    /\ [][LiveNext]_vars
    /\ WF_vars(TimerFire(MaxSockets, {FALSE}))
    /\ WF_vars(\E i \in 1..Len(sockets) : OnOpen(i))

-----------------------------------------------------------------------------
(* Properties *)

\* The sockets of the current instance that are connecting or open.
Active == { i \in 1..Len(sockets) : sockets[i].state \in {"CONNECTING", "OPEN"} }

\* C1: when the view is closed while the connection is Closed with a reconnect
\* timer pending, no socket is created afterwards (while the view stays closed).
C1_CloseWhilePendingStopsReconnect ==
    [][(~mounted /\ ~mounted' /\ closedIn = "ClosedPending")
           => Len(sockets') = Len(sockets)]_vars

\* C2: when the view is closed while the connection is Connecting or Open, the
\* close event of the socket the cleanup closed arms no reconnect timer, and no
\* socket is created afterwards (while the view stays closed).
C2_CloseWhileActiveStopsReconnect ==
    [][(~mounted /\ ~mounted' /\ closedIn \in {"Connecting", "Open"})
           => (Len(timers') <= Len(timers) /\ Len(sockets') = Len(sockets))]_vars

\* C3: at most one socket created by the component is Connecting or Open.
C3_AtMostOneActiveSocket == Cardinality(Active) <= 1

\* C4: every socket of a torn-down instance is closing or closed.
C4_TornDownSocketsStayClosed ==
    \A i \in 1..Len(sockets) :
        sockets[i].dead => sockets[i].state \in {"CLOSING", "CLOSED"}

\* C5: with the view mounted, once the open connection of the first socket is
\* lost by a close event and the transport accepts the next attempt, the
\* component is connected again on the second socket, the one the single
\* reconnect timer created, with no timer left.
C5_ReconnectsAfterOneTimer ==
    (mounted /\ Len(sockets) = 1 /\ sockets[1].state = "CLOSED")
        ~> (isConnected /\ Len(sockets) = 2 /\ sockets[2].state = "OPEN"
              /\ timers = << >>)

\* The view is connected again on the socket that the reconnect timer created
\* after the first socket was lost.
C5_Witness ==
    /\ mounted /\ isConnected
    /\ Len(sockets) = 2
    /\ sockets[1].state = "CLOSED" /\ sockets[2].state = "OPEN"
    /\ wsRef = 2 /\ timers = << >>

\* C6: a step in which an OPEN socket becomes CLOSED (close event, or error
\* event followed by close event) arms exactly one reconnect timer, and the
\* instance that owns the socket shows disconnected.
C6_LossArmsExactlyOneTimer ==
    [][\A i \in 1..Len(sockets) :
          (sockets[i].state = "OPEN" /\ sockets'[i].state = "CLOSED")
              => /\ Len(timers') = Len(timers) + 1
                 /\ (~sockets[i].dead => ~isConnected')]_vars

\* The only socket of the mounted instance has delivered a message, so it was
\* OPEN, and is now CLOSED with exactly one reconnect timer pending.
C6_Witness ==
    /\ mounted /\ ~isConnected
    /\ Len(sockets) = 1 /\ sockets[1].state = "CLOSED" /\ ~sockets[1].dead
    /\ messages # << >>
    /\ Len(timers) = 1

\* C7: while the view is mounted and none of its sockets is Open, one of its
\* sockets is Connecting or one of its reconnect timers is pending.
C7_NeverGivesUp ==
    (mounted /\ ~\E i \in 1..Len(sockets) : ~sockets[i].dead /\ sockets[i].state = "OPEN")
        => \/ \E i \in 1..Len(sockets) : ~sockets[i].dead /\ sockets[i].state = "CONNECTING"
           \/ \E k \in 1..Len(timers) : ~timers[k].dead

\* C8: delivering a frame whose message_id is already in the store leaves the
\* store as it is, whatever the frame's other fields are; so after a frame has
\* been ingested, ingesting any frame with its message_id again changes nothing.
C8_DuplicateIdLeavesStore ==
    \A f \in Frames :
        IF HasId(messages, f.message_id)
        THEN Ingest(messages, f) = messages
        ELSE LET once == Ingest(messages, f)
             IN  \A g \in Frames :
                    g.message_id = f.message_id => Ingest(once, g) = once

\* An open socket of the mounted instance can deliver a frame whose message_id
\* is stored with another sent_at, next to a second stored message.
C8_Witness ==
    /\ mounted
    /\ \E i \in 1..Len(sockets) : sockets[i].state = "OPEN" /\ ~sockets[i].dead
    /\ Len(messages) >= 2
    /\ \E g \in Frames, k \in 1..Len(messages) :
          g.message_id = messages[k].message_id /\ g.sent_at # messages[k].sent_at

\* C9: no two entries of the messages array have the same message_id.
C9_UniqueMessageIds ==
    \A j, k \in 1..Len(messages) :
        messages[j].message_id = messages[k].message_id => j = k

\* The store holds as many messages as there are ids, after a reconnect:
\* every further frame repeats a stored id.
C9_Witness ==
    /\ Len(messages) = Cardinality(MsgIds)
    /\ Len(sockets) >= 2
    /\ sockets[Len(sockets)].state = "OPEN"

\* The users a conversation can be held with.
Correspondents == {2, 3}

\* C10: of two stored messages of one conversation, the one whose sent_at is
\* the strictly earlier instant comes first in getMessagesWithUser.
C10_EarlierComesFirst ==
    \A u \in Correspondents :
        LET conv == getMessagesWithUser(messages, u)
        IN  \A j, k \in 1..Len(conv) :
               ( /\ GetTime(conv[j].sent_at) # NaN
                 /\ GetTime(conv[k].sent_at) # NaN
                 /\ GetTime(conv[j].sent_at) < GetTime(conv[k].sent_at) )
                   => j < k

\* Whether the message with this id is in conv.
InConv(conv, id) == \E k \in 1..Len(conv) : conv[k].message_id = id

\* The place of the message with this id in conv.
PlaceIn(conv, id) == CHOOSE k \in 1..Len(conv) : conv[k].message_id = id

PartiesOf(msg) == {msg.sender_id, msg.receiver_id}

\* C12: getMessagesWithUser(u) is exactly the stored messages whose parties
\* are the current user and u, in both directions: every message it returns
\* is one of those, and each of those is returned once.
C12_ProjectionIsThePair ==
    \A u \in Correspondents :
       LET conv == getMessagesWithUser(messages, u)
       IN  /\ \A k \in 1..Len(conv) :
                 /\ PartiesOf(conv[k]) = {currentUserId, u}
                 /\ \E j \in 1..Len(messages) : messages[j] = conv[k]
           /\ \A j \in 1..Len(messages) :
                 PartiesOf(messages[j]) = {currentUserId, u} =>
                    Cardinality({ k \in 1..Len(conv) : conv[k] = messages[j] }) = 1

\* C12 witness: the store holds a message to user 2, one from user 2 and one
\* from user 3.
C12_Witness ==
    /\ Len(messages) = 3
    /\ Len(getMessagesWithUser(messages, 2)) = 2
    /\ Len(getMessagesWithUser(messages, 3)) = 1
    /\ \E j, k \in 1..3 :
          /\ messages[j].sender_id = currentUserId /\ messages[j].receiver_id = 2
          /\ messages[k].sender_id = 2 /\ messages[k].receiver_id = currentUserId

\* The last call of sendMessage had a draft that is not blank and a
\* selected correspondent.
SendableCall == Trim(lastSend.draft) # << >> /\ lastSend.selected # 0

\* C13: sendMessage writes nothing to the transport when the draft trims to
\* the empty string or no correspondent is selected, whatever the state of
\* the connection: it does not call send.
C13_BlankOrUnselectedWritesNothing ==
    (lastSend # NoSend /\ ~SendableCall) =>
       (lastSend.calls = 0 /\ lastSend.wrote = << >>)

\* C13 witness: sendMessage was called with a blank draft that is not empty,
\* a selected correspondent and an open socket in wsRef.
C13_Witness ==
    /\ lastSend.draft = << " " >>
    /\ lastSend.selected # 0
    /\ lastSend.readyState = "OPEN"
    /\ lastSend.connected
    /\ lastSend.calls = 0

\* C14: sendMessage with a draft that is not blank and a selected
\* correspondent does not call send on any socket while the connection is
\* not open (connecting, closed after a loss, waiting for the reconnect).
C14_NotOpenAttemptsNoSend ==
    (SendableCall /\ lastSend.readyState # "OPEN") => lastSend.calls = 0

\* C15: sendMessage with an open socket, a selected correspondent r and a
\* draft that trims to a non-empty c writes exactly one frame, which is
\* {sender_id: currentUserId, receiver_id: r, content: c} and has no other
\* property.
C15_OpenWritesOneFrame ==
    (SendableCall /\ lastSend.readyState = "OPEN") =>
       /\ lastSend.calls = 1
       /\ Len(lastSend.wrote) = 1
       /\ DOMAIN lastSend.wrote[1] = {"sender_id", "receiver_id", "content"}
       /\ lastSend.wrote[1].sender_id = currentUserId
       /\ lastSend.wrote[1].receiver_id = lastSend.selected
       /\ lastSend.wrote[1].content = Trim(lastSend.draft)
       /\ lastSend.wrote[1].content # lastSend.draft

\* C15 witness: a draft with white space around the text was sent to user 3
\* on an open socket.
C15_Witness ==
    /\ lastSend.readyState = "OPEN"
    /\ lastSend.selected = 3
    /\ lastSend.draft = << " ", "a", " " >>
    /\ lastSend.wrote # << >>

\* C16: sendMessage never changes the messages store; the store changes
\* only by the ingest of an inbound frame, which carries the message_id the
\* server assigned.
C16_SendLeavesStore ==
    [][/\ lastSend' # lastSend => messages' = messages
       /\ messages' # messages =>
             /\ lastSend' = lastSend
             /\ \E f \in ViewFrames : f.message_id # undefinedId /\ messages' = Ingest(messages, f)]_vars

\* C16 witness: a frame was written to the transport and the store is empty.
C16_Witness ==
    /\ lastSend.wrote # << >>
    /\ messages = << >>
    /\ newMessage = << >>

\* C18: sendMessage lets no exception escape, whatever the state of the
\* socket in wsRef.
C18_NothingEscapesSend == ~lastSend.escaped

\* C18 witness: send was called on a connecting socket and threw.
C18_Witness ==
    /\ lastSend.readyState = "CONNECTING"
    /\ lastSend.calls = 1
    /\ lastSend.threw

\* A Message as the interface declares it: message_id and sent_at present.
\* (The frames of the model always carry sender_id, receiver_id and content.)
WellFormed(msg) == msg.message_id # undefinedId /\ msg.sent_at # undefinedDate

\* C17: an inbound frame that is not a well-formed Message leaves the store
\* unchanged, so that the store, which starts empty, never holds anything
\* but well-formed messages.
C17_MalformedFrameLeavesStore ==
    \A k \in 1..Len(messages) : WellFormed(messages[k])

\* The header a rendered element stands under: the last one pushed before it.
HeaderAbove(r, p) ==
    LET q == CHOOSE q \in 1..p : r[q].header /\ \A x \in (q + 1)..p : ~r[x].header
    IN  r[q]

\* The places of the bubbles in a rendered conversation.
Bubbles(r) == { p \in 1..Len(r) : ~r[p].header }

\* C19: the day grouping puts every message of the selected conversation
\* under exactly one day header, the one of its day, and the headers with
\* their messages stand in the order of the projection: the bubbles are the
\* messages of the projection, each once and in its order, the first element
\* is a header, no header is empty, and a "Wczoraj" header stands before a
\* "Dzisiaj" header.
C19_EveryMessageUnderItsDay ==
    \A now \in Nows :
       LET r == Rendered(now)
       IN  /\ Cardinality(Bubbles(r)) = Len(userMessages)
           /\ \A p, q \in Bubbles(r) : p < q <=> r[p].index < r[q].index
           /\ \A p \in Bubbles(r) :
                 /\ r[p].index \in 1..Len(userMessages)
                 /\ \E q \in 1..p : r[q].header
                 /\ HeaderAbove(r, p).label = formatDate(userMessages[r[p].index].sent_at, now)
           /\ \A p \in 1..Len(r) : r[p].header => (p < Len(r) /\ ~r[p + 1].header)
           /\ \A p, q \in 1..Len(r) :
                 (r[p].header /\ r[q].header /\ r[p].label = Wczoraj /\ r[q].label = Dzisiaj)
                    => p < q

\* C20: two adjacent messages of the projection stand in the same day group
\* (no header is pushed between them) if and only if their sent_at fall on
\* the same local calendar day: same year, month and day.
C20_SameGroupIffSameDay ==
    \A now \in Nows :
       \A k \in 2..Len(userMessages) :
          (GetTime(userMessages[k - 1].sent_at) # NaN /\ GetTime(userMessages[k].sent_at) # NaN)
             => (~PushesHeader(userMessages, k, now)
                   <=> CalendarDate(GetTime(userMessages[k - 1].sent_at))
                         = CalendarDate(GetTime(userMessages[k].sent_at)))

\* The calls of fetchReceivedOffers whose GET /user/:id for this id is in flight.
InFlight(id) ==
    { r \in 1..MaxRuns : runs[r].phase = "users" /\ OfferUser(runs[r].pos) = id }

\* C21: lookups of the same unresolved user id that overlap in time cause
\* one outbound profile fetch: at no time are two fetches of one id in flight.
C21_OneFetchInFlightPerId ==
    \A id \in OfferUserIds : Cardinality(InFlight(id)) <= 1

\* This step sends a GET /user/:id from call r of the mounted instance.
Issues(r) ==
    /\ runs'[r].phase = "users"
    /\ ~runs'[r].dead
    /\ runs[r].phase # "users" \/ runs[r].pos # runs'[r].pos

\* C22: once a profile fetch for a user id has succeeded, every later
\* lookup of that id finds the cached profile and sends no fetch: no step
\* sends a fetch for an id whose profile the instance holds.
C22_NoFetchOfCachedId ==
    [][\A r \in 1..MaxRuns :
          Issues(r) => offersUsers'[OfferUser(runs'[r].pos)] = "none"]_vars

\* This step is the end of the GET /user/:id of call r.
Settles(r) ==
    /\ runs[r].phase = "users"
    /\ runs'[r].phase # "users" \/ runs'[r].pos # runs[r].pos

\* The position call r is at after the step, past the list when it returned.
PosAfter(r) == IF runs'[r].phase = "users" THEN runs'[r].pos ELSE MaxOffers + 1

\* C23: a profile fetch that fails (a response that is not ok, or a network
\* error) leaves the cache unchanged, so the id stays unresolved and no
\* placeholder is stored, and the lookups that follow in the call do not skip
\* an offer whose author is unresolved: a later lookup of the same id sends
\* a new fetch.
C23_FailedFetchLeavesCache ==
    [][\A r \in 1..MaxRuns :
          (Settles(r) /\ ~settled'.ok) =>
             /\ offersUsers' = offersUsers
             /\ ~runs[r].dead =>
                   \A p \in (runs[r].pos + 1)..(PosAfter(r) - 1) :
                      offersUsers'[OfferUser(p)] # "none"]_vars

\* C23 witness: the fetch of user 7 for the first offer failed, the profile
\* is not cached, and the same call is fetching user 7 again for the second.
C23_Witness ==
    /\ offersMounted
    /\ settled = [id |-> 7, ok |-> FALSE]
    /\ offersUsers[7] = "none"
    /\ Running = {1}
    /\ ~runs[1].dead
    /\ runs[1].phase = "users"
    /\ runs[1].pos = 2

\* C24: isConnected agrees with the connection held: in every state
\* isConnected is true if and only if wsRef holds a socket that is open.
C24_FlagAgreesWithSocket ==
    isConnected <=> (wsRef # 0 /\ sockets[wsRef].state = "OPEN")

\* C25: the store is changed by the inbound frame handler only: a step that
\* changes messages is the ingest of a frame on an open socket and changes
\* nothing else, so that open, close, error, the reconnect timer, selecting
\* a user, editing the draft, sending and the end of the directory fetch
\* leave the store as it is, across connection losses.
C25_OnlyIngestWritesStore ==
    [][messages' # messages =>
          /\ \E i \in 1..Len(sockets), f \in ViewFrames :
                /\ sockets[i].state = "OPEN" /\ ~sockets[i].dead
                /\ messages' = Ingest(messages, f)
          /\ UNCHANGED <<sockets, timers, wsRef, isConnected, users, fetching,
                         selectedUser, newMessage, lastSend>>]_vars

\* C25 witness: the message ingested on the first socket is in the store
\* after that socket was lost and the second one has opened.
C25_Witness ==
    /\ Len(sockets) = 2
    /\ sockets[1].state = "CLOSED"
    /\ sockets[1].token = sockets[2].token
    /\ sockets[2].state = "OPEN"
    /\ isConnected
    /\ timers = << >>
    /\ Len(messages) = 1
    /\ selectedUser = 2
    /\ fetching = 0

\* C26: selecting a correspondent changes the selected correspondent and
\* nothing else: no transport write, no fetch, and the store, isConnected,
\* the sockets, wsRef and the pending timers stay as they are.
C26_SelectChangesSelectionOnly ==
    [][selectedUser' # selectedUser =>
          /\ selectedUser' \in users
          /\ UNCHANGED <<mounted, token, sockets, timers, wsRef, isConnected, messages,
                         users, fetching, newMessage, lastSend>>]_vars

\* C26 witness: user 3 is selected after a message was sent to user 2,
\* with a message in the store, a closed socket and a reconnect timer pending.
C26_Witness ==
    /\ selectedUser = 3
    /\ lastSend.selected = 2
    /\ lastSend.wrote # << >>
    /\ messages # << >>
    /\ timers # << >>
    /\ sockets[wsRef].state = "CLOSED"

\* C27: every socket the mounted instance opens, the ones opened by the
\* reconnect timer included, carries the token the component is given at
\* that moment.
C27_AttemptUsesCurrentToken ==
    [][Len(sockets') > Len(sockets) =>
          (sockets'[Len(sockets')].dead \/ sockets'[Len(sockets')].token = token')]_vars

\* C28: the store only grows and the first frame of an id wins: in every
\* step each stored message is still in the store with all its fields, the
\* store is no shorter, and no entry of the new store has a stored id with
\* other fields.
C28_StoreGrowsFirstWriterWins ==
    [][messages' # messages =>
          /\ Len(messages') >= Len(messages)
          /\ \A k \in 1..Len(messages) :
                /\ \E j \in 1..Len(messages') : messages'[j] = messages[k]
                /\ \A j \in 1..Len(messages') :
                      messages'[j].message_id = messages[k].message_id
                          => messages'[j] = messages[k]]_vars

\* C28 witness: two messages are stored, id 1 with one sent_at, and the
\* second socket is open to deliver id 1 with another sent_at.
C28_Witness ==
    /\ Len(sockets) = 2
    /\ sockets[1].state = "CLOSED"
    /\ sockets[2].state = "OPEN"
    /\ Len(messages) = 2
    /\ \E k \in 1..2 :
          /\ messages[k].message_id = 1
          /\ messages[k].sent_at = "2024-05-01T11:00:00+02:00"
    /\ \E f \in DedupFrames : f.message_id = 1 /\ f.sent_at = undefinedDate

\* C29: sendMessage clears the draft exactly when it called send and send
\* returned; when it rejects or send throws the draft stays as it was.
C29_DraftClearedIffSendReturned ==
    [][lastSend' # lastSend =>
          IF lastSend'.calls = 1 /\ ~lastSend'.threw
          THEN newMessage # << >> /\ newMessage' = << >>
          ELSE newMessage' = newMessage]_vars

\* C29 witness: send threw on a connecting socket and the draft, which is
\* not blank, is still in the input.
C29_Witness ==
    /\ lastSend.calls = 1
    /\ lastSend.threw
    /\ lastSend.readyState = "CONNECTING"
    /\ newMessage = lastSend.draft
    /\ Trim(newMessage) # << >>
    /\ selectedUser = lastSend.selected

\* C30: while the Offers component stays mounted, the status it holds for a
\* received offer changes only when a POST of updateOfferStatus for that
\* offer is answered ok, and only away from pending: an offer held as
\* accepted or rejected keeps its status, and an answer that is not ok
\* changes no offer.
C30_DecidedStatusIsFinal ==
    [][(offersMounted /\ offersMounted') =>
          \A o \in OfferIds :
              (receivedOffers[o] # "absent" /\ receivedOffers'[o] # receivedOffers[o]) =>
                  /\ receivedOffers[o] = "pending"
                  /\ Len(requests') < Len(requests)
                  /\ answered' = [offer |-> o, ok |-> TRUE]]_vars

=============================================================================
